---- MODULE Spec2Model ----
\* Model of the SpeechToText backend (src/server/index.js): the CORS option
\* callback, the multer upload middleware, the POST /transcribe handler, the
\* GET /transcriptions/:user_id handler and the transcript construction.
EXTENDS Integers, Sequences, FiniteSets, TLC

VARIABLES req, disk, now, gate, resp, out

vars == <<req, disk, now, gate, resp, out>>

\* ------------------------------------------------------------------ bounds
NumReqs == 2
MaxClock == 1
MaxSegs == 2
MaxAlts == 2

Reqs == 1..NumReqs

\* ------------------------------------------------------------- text values
\* A text is a sequence of characters; NL is the "\n" separator of join("\n").
NL == "\n"
Hello == <<"h", "e", "l", "l", "o">>
World == <<"w", "o", "r", "l", "d">>
Empty == <<>>

\* ---------------------------------------------- transcript (index.js 124-126)
\* A recognizer response is a sequence of result segments; a segment is its
\* sequence of alternatives; an alternative is its transcript text.

\* r.alternatives[0].transcript: reading .transcript of undefined throws.
MapThrows(results) == \E i \in 1..Len(results) : Len(results[i]) = 0

FirstAlternatives(results) == [i \in 1..Len(results) |-> results[i][1]]

\* Array.prototype.join(sep): R = e1; then R = R + sep + ek for k = 2..n.
RECURSIVE JoinFrom(_, _, _, _)
JoinFrom(texts, sep, k, R) ==
  IF k > Len(texts) THEN R
  ELSE JoinFrom(texts, sep, k + 1, R \o <<sep>> \o texts[k])

Join(texts, sep) ==
  IF Len(texts) = 0 THEN <<>> ELSE JoinFrom(texts, sep, 2, texts[1])

\* Variant: the last alternative of each segment instead of the first.
TranscriptLast(results) ==
  Join([i \in 1..Len(results) |-> results[i][Len(results[i])]], NL)

Transcript(results) == Join(FirstAlternatives(results), NL)

\* `!transcription`: the empty string is falsy.
\* Variant: no empty-transcript check.
NoSpeechNever(transcription) == FALSE

NoSpeech(transcription) == Len(transcription) = 0

\* ------------------------------------------------- upload (index.js 71-83)
allowedTypes == {"audio/mpeg", "audio/wav", "audio/mp3"}

\* Variant: a filter that accepts every declared type.
fileFilterAcceptAll(mimetype) == TRUE

fileFilter(mimetype) == mimetype \in allowedTypes

\* Inputs of the upload.
MimeTypes == {"audio/mpeg", "audio/wav", "audio/mp3", "audio/ogg", "text/plain"}
Names == {"a.mp3", "b.mp3"}

\* Date.now() + "-" + file.originalname
filename(t, originalname) == <<t, originalname>>

Paths == {filename(t, n) : t \in 0..MaxClock, n \in Names}
NoFile == <<>>

\* ------------------------------------------------------------ request state
NewReq ==
  [pc |-> "idle", kind |-> "none", mimetype |-> "none", path |-> NoFile,
   nresp |-> 0, status |-> 0, msg |-> "", recogCalls |-> 0, recog |-> "none",
   segments |-> -1, transcription |-> <<>>, unlink |-> "none", inserts |-> 0,
   insert |-> "none", escaped |-> FALSE]

\* res.status(s).json({error: m}) / res.json(...): one more response sent;
\* the caller sees the first one.
Respond(q, s, m) ==
  [q EXCEPT !.nresp = @ + 1,
            !.status = IF q.nresp = 0 THEN s ELSE @,
            !.msg = IF q.nresp = 0 THEN m ELSE @]

Finish(q) == [q EXCEPT !.pc = "done"]

\* outer catch (index.js 150-153): err.message || "Unknown error"
OuterCatch(q, message) ==
  Finish(Respond(q, 500, IF message = "" THEN "Unknown error" ELSE message))


\* Requests are numbered in the order the server dispatches them to a route.
Arrives(r) ==
  req[r].pc = "idle" /\ (IF r = 1 THEN TRUE ELSE req[r - 1].pc # "idle")

\* ----------------------------------------- upload middleware (index.js 89-100)
\* upload.single("audio")(req, res, cb) with err: 400 and no next().
MulterError(q, message) == Finish(Respond(q, 400, message))

\* Outcomes of parsing the multipart body: a malformed body, a body without an
\* "audio" file part, or a file part with its declared type and original name.
Multer(r) ==
  /\ Arrives(r)
  /\ \/ /\ req' = [req EXCEPT ![r] =
                     MulterError([@ EXCEPT !.kind = "POST"], "Unexpected end of form")]
        /\ UNCHANGED disk
     \/ /\ req' = [req EXCEPT ![r] = [@ EXCEPT !.kind = "POST", !.pc = "uploaded"]]
        /\ UNCHANGED disk
     \/ \E m \in MimeTypes, n \in Names :
          IF fileFilter(m)
          THEN /\ req' = [req EXCEPT ![r] =
                            [@ EXCEPT !.kind = "POST", !.mimetype = m,
                                      !.path = filename(now, n), !.pc = "uploaded"]]
               /\ disk' = [disk EXCEPT ![filename(now, n)] = r]
          ELSE /\ req' = [req EXCEPT ![r] =
                            MulterError([@ EXCEPT !.kind = "POST", !.mimetype = m],
                                        "Invalid file type")]
               /\ UNCHANGED disk
  /\ UNCHANGED <<now, gate, resp, out>>

\* ------------------------------------- POST /transcribe (index.js 101-154)
\* Outcomes of fs.readFileSync(filePath).toString("base64"): ENOENT when the
\* file is gone; otherwise the bytes, or a throw (e.g. ERR_STRING_TOO_LONG).
ReadErrors(q) ==
  IF disk[q.path] = 0 THEN {"ENOENT"} ELSE {"", "ERR_STRING_TOO_LONG"}

\* Lines 103-123: from next() up to the await of client.recognize(request).
\* req.file.mimetype is never read by the handler: past this point the request
\* only records that its type was accepted.
HandlerEntry(r) ==
  /\ req[r].pc = "uploaded"
  /\ IF req[r].path = NoFile
     THEN req' = [req EXCEPT ![r] = Finish(Respond(@, 400, "No file uploaded"))]
     ELSE \E e \in ReadErrors(req[r]) :
            IF e = ""
            THEN req' = [req EXCEPT ![r] =
                           [@ EXCEPT !.mimetype = "accepted", !.recogCalls = @ + 1,
                                     !.pc = "recognizing"]]
            ELSE req' = [req EXCEPT ![r] = OuterCatch(@, e)]
  /\ UNCHANGED <<disk, now, gate, resp, out>>

\* finally (index.js 131-134): fs.unlink(filePath, () => {}) is started.
Finally(q) == [q EXCEPT !.unlink = "pending"]

\* Variant: the recognizer call is made again after a failure.
RecognizeCatchRetry(q) ==
  IF q.recogCalls < 2
  THEN [q EXCEPT !.recogCalls = @ + 1]
  ELSE Finish(Finally(Respond(q, 500, "Speech-to-Text failed")))

\* Variant: the catch block lacks its return and falls through to line 136.
RecognizeCatchFallThrough(q) ==
  Finish(Respond(Finally(Respond(q, 500, "Speech-to-Text failed")),
                 500, "No speech detected"))

\* catch (index.js 128-130): the 500 is sent, then finally runs, then return.
RecognizeCatch(q) == Finish(Finally(Respond(q, 500, "Speech-to-Text failed")))

\* Lines 136-141 after a transcript was produced.
AfterTranscript(q) ==
  IF NoSpeech(q.transcription)
  THEN Finish(Respond(q, 500, "No speech detected"))
  ELSE [q EXCEPT !.inserts = @ + 1, !.pc = "inserting"]

\* Recognizer responses offered to the handler.
Responses ==
  { <<>>, <<<<Empty>>>>, <<<<Hello>>, <<World, Hello>>>>, <<<<Hello>>, <<>>>> }

\* Lines 123-141: the await of client.recognize settles.
RecognizeSettles(r) ==
  /\ req[r].pc = "recognizing"
  /\ \/ req' = [req EXCEPT ![r] = RecognizeCatch([@ EXCEPT !.recog = "failed"])]
     \/ \E results \in Responses :
          IF MapThrows(results)
          THEN req' = [req EXCEPT ![r] =
                         RecognizeCatch([@ EXCEPT !.recog = "ok",
                                                  !.segments = Len(results)])]
          ELSE req' = [req EXCEPT ![r] =
                         AfterTranscript(Finally(
                           [@ EXCEPT !.recog = "ok", !.segments = Len(results),
                                     !.transcription = Transcript(results)]))]
  /\ UNCHANGED <<disk, now, gate, resp, out>>

\* Lines 138-153: the await of supabase insert settles: data, error, or a throw.
InsertSettles(r) ==
  /\ req[r].pc = "inserting"
  /\ \/ req' = [req EXCEPT ![r] =
                  Finish(Respond([@ EXCEPT !.insert = "ok"], 200, "Success"))]
     \/ req' = [req EXCEPT ![r] =
                  Finish(Respond([@ EXCEPT !.insert = "error"], 500,
                                 "Failed to save transcription"))]
     \/ req' = [req EXCEPT ![r] =
                  OuterCatch([@ EXCEPT !.insert = "threw"], "fetch failed")]
  /\ UNCHANGED <<disk, now, gate, resp, out>>

\* The unlink started in finally completes; its outcome is ignored.
UnlinkComplete(r) ==
  /\ req[r].unlink = "pending"
  /\ req' = [req EXCEPT ![r] = [@ EXCEPT !.unlink = "done"]]
  /\ disk' = [disk EXCEPT ![req[r].path] = 0]
  /\ UNCHANGED <<now, gate, resp, out>>

\* Date.now() advances; it is only read when an upload is named, so the clock
\* is followed while a request is still to arrive.
Tick ==
  /\ now < MaxClock
  /\ \E r \in Reqs : req[r].pc = "idle"
  /\ now' = now + 1
  /\ UNCHANGED <<req, disk, gate, resp, out>>

\* ------------------------- GET /transcriptions/:user_id (index.js 158-171)
GetTranscriptions(r) ==
  /\ Arrives(r)
  /\ req' = [req EXCEPT ![r] = [@ EXCEPT !.kind = "GET", !.pc = "querying"]]
  /\ UNCHANGED <<disk, now, gate, resp, out>>

\* The await of the query settles: data, error, or a rejection nothing catches.
QuerySettles(r) ==
  /\ req[r].pc = "querying"
  /\ \/ req' = [req EXCEPT ![r] = Finish(Respond(@, 200, "Success"))]
     \/ req' = [req EXCEPT ![r] =
                  Finish(Respond(@, 500, "Failed to fetch transcriptions"))]
     \/ req' = [req EXCEPT ![r] = [@ EXCEPT !.escaped = TRUE, !.pc = "escaped"]]
  /\ UNCHANGED <<disk, now, gate, resp, out>>

\* ----------------------------------------------- CORS (index.js 17-43)
allowedOrigins ==
  {"http://localhost:5173", "https://speech-to-text-frontend-ashen.vercel.app"}

maxAge == 86400

\* A header that is not present.
Undefined == "<undefined>"

\* Origin headers offered to the gate: none, empty, the two configured
\* origins, and origins that differ from a configured one.
Origins ==
  {Undefined, "", "http://localhost:5173",
   "https://speech-to-text-frontend-ashen.vercel.app",
   "http://localhost:5173/", "https://evil.example"}

Methods == {"GET", "POST", "OPTIONS"}

\* `!origin`: undefined and the empty string are falsy.
Falsy(v) == v = Undefined \/ v = ""

\* Variant: every origin is allowed.
isAllowedAny(origin) == TRUE

\* allowedOrigins.has(origin)
isAllowed(origin) == origin \in allowedOrigins

\* corsOptions(req, cb): the options handed to the cors middleware.
corsOptions(origin) ==
  [credentials |-> TRUE,
   methods |-> "GET,POST,OPTIONS",
   allowedHeaders |-> "Content-Type,Authorization",
   maxAge |-> maxAge,
   origin |-> IF Falsy(origin) THEN TRUE ELSE isAllowed(origin)]

NewGate ==
  [phase |-> "none", method |-> "none", origin |-> Undefined, allow |-> FALSE,
   acao |-> Undefined, vary |-> Undefined, acac |-> Undefined,
   acam |-> Undefined, acah |-> Undefined, acma |-> 0, next |-> FALSE]

\* cors(corsOptions) applied to one request: with options.origin false the
\* middleware calls next() and sets nothing; with options.origin true it
\* reflects the request origin (a header is only set when its value is truthy),
\* adds Vary: Origin and the credentials header, and answers a preflight itself.
cors(g, method, origin) ==
  LET o == corsOptions(origin) IN
  IF ~o.origin
  THEN [g EXCEPT !.phase = "done", !.method = method, !.origin = origin,
                 !.allow = FALSE, !.next = TRUE]
  ELSE [g EXCEPT !.phase = "done", !.method = method, !.origin = origin,
                 !.allow = TRUE,
                 !.acao = IF Falsy(origin) THEN Undefined ELSE origin,
                 !.vary = "Origin",
                 !.acac = IF o.credentials THEN "true" ELSE Undefined,
                 !.acam = IF method = "OPTIONS" THEN o.methods ELSE Undefined,
                 !.acah = IF method = "OPTIONS" THEN o.allowedHeaders ELSE Undefined,
                 !.acma = IF method = "OPTIONS" THEN o.maxAge ELSE 0,
                 !.next = (method # "OPTIONS")]

\* app.use(cors(corsOptions)) runs for a request.
CorsMiddleware(r) ==
  /\ gate[r].phase = "none"
  /\ \E method \in Methods, origin \in Origins :
       gate' = [gate EXCEPT ![r] = cors(@, method, origin)]
  /\ UNCHANGED <<req, disk, now, resp, out>>

\* ------------------------------------ transcript of one recognizer response
Texts == {Empty, Hello, World}

SeqsUpTo(S, n) == UNION {[1..k -> S] : k \in 0..n}

\* A segment is its sequence of alternatives; a response its segments.
Segments == SeqsUpTo(Texts, MaxAlts)
AllResponses == SeqsUpTo(Segments, MaxSegs)

NoOut == [phase |-> "none", threw |-> FALSE, text |-> <<>>]

\* index.js 123-126 applied to the response drawn initially.
Transcribe ==
  /\ out.phase = "none"
  /\ out' = IF MapThrows(resp)
            THEN [phase |-> "done", threw |-> TRUE, text |-> <<>>]
            ELSE [phase |-> "done", threw |-> FALSE, text |-> Transcript(resp)]
  /\ UNCHANGED <<req, disk, now, gate, resp>>

\* ---------------------------------------------------------- specifications
Init ==
  /\ req = [r \in Reqs |-> NewReq]
  /\ disk = [p \in Paths |-> 0]
  /\ now = 0
  /\ gate = [r \in Reqs |-> NewGate]
  /\ resp = <<>>
  /\ out = NoOut

Next ==
  \/ \E r \in Reqs : Multer(r)
  \/ \E r \in Reqs : HandlerEntry(r)
  \/ \E r \in Reqs : RecognizeSettles(r)
  \/ \E r \in Reqs : InsertSettles(r)
  \/ \E r \in Reqs : UnlinkComplete(r)
  \/ \E r \in Reqs : GetTranscriptions(r)
  \/ \E r \in Reqs : QuerySettles(r)
  \/ Tick

\* The request pipeline: concurrent POST /transcribe and GET requests.
Spec == Init /\ [][Next]_vars

NextCors == \E r \in Reqs : CorsMiddleware(r)

\* The cross-origin gate in front of every route.
SpecCors == Init /\ [][NextCors]_vars

InitTranscript ==
  /\ req = [r \in Reqs |-> NewReq]
  /\ disk = [p \in Paths |-> 0]
  /\ now = 0
  /\ gate = [r \in Reqs |-> NewGate]
  /\ resp \in AllResponses
  /\ out = NoOut

NextTranscript == Transcribe

\* The transcript construction over every bounded recognizer response.
SpecTranscript == InitTranscript /\ [][NextTranscript]_vars

\* ------------------------------------------------------------------ claims
Posts == {r \in Reqs : req[r].kind = "POST"}
Stored == {r \in Reqs : req[r].path # NoFile}

\* C1: a POST /transcribe whose file declares a media type outside
\* {audio/mpeg, audio/wav, audio/mp3} is answered 400 by the upload middleware,
\* stores no file, and never reaches the recognizer call or the insert.
DisallowedTypeRejected ==
  \A r \in Reqs :
    req[r].mimetype \in MimeTypes \ {"audio/mpeg", "audio/wav", "audio/mp3"}
      => /\ req[r].pc = "done"
         /\ req[r].nresp = 1
         /\ req[r].status = 400
         /\ req[r].path = NoFile
         /\ req[r].recogCalls = 0
         /\ req[r].inserts = 0
         /\ req[r].unlink = "none"

DisallowedTypeSeen ==
  \E r \in Reqs :
    /\ req[r].mimetype = "audio/ogg"
    /\ req[r].status = 400
    /\ req[r].msg = "Invalid file type"

\* C2: whenever a request whose upload was stored has sent its response, the
\* transient file is absent from storage.
FileAbsentAtResponse ==
  \A r \in Stored : req[r].nresp > 0 => disk[req[r].path] = 0

\* C3: every finished request whose upload was stored has initiated the
\* deletion of its transient file, whatever ended the request.
DeletionInitiatedOnEveryExit ==
  \A r \in Stored : req[r].pc = "done" => req[r].unlink # "none"

\* C4: a recognizer response with zero segments ends the request with
\* 500 "No speech detected" and no insert; an insert is only ever made with a
\* non-empty transcript text.
NoSpeechNoInsert ==
  \A r \in Reqs :
    /\ req[r].segments = 0
         => /\ req[r].pc = "done"
            /\ req[r].nresp = 1
            /\ req[r].status = 500
            /\ req[r].msg = "No speech detected"
            /\ req[r].inserts = 0
    /\ req[r].inserts > 0 => Len(req[r].transcription) > 0

NoSpeechSeen ==
  \E r \in Reqs :
    /\ req[r].segments = 0
    /\ req[r].recog = "ok"
    /\ req[r].msg = "No speech detected"

\* Position just before the first character of segment i in the transcript.
RECURSIVE Offset(_, _)
Offset(results, i) ==
  IF i = 1 THEN 0 ELSE Offset(results, i - 1) + Len(results[i - 1][1]) + 1

\* C5: the transcript holds, segment by segment and in segment order, the text
\* of the segment's first alternative, with exactly one newline between
\* consecutive segments and nothing else; [hello, world] gives hello\nworld.
TranscriptIsFirstAlternativesJoined ==
  (out.phase = "done" /\ ~out.threw) =>
    LET n == Len(resp)
        t == out.text
    IN /\ Len(t) = IF n = 0 THEN 0 ELSE Offset(resp, n) + Len(resp[n][1])
       /\ \A i \in 1..n :
            SubSeq(t, Offset(resp, i) + 1, Offset(resp, i) + Len(resp[i][1]))
              = resp[i][1]
       /\ \A i \in 2..n : t[Offset(resp, i)] = NL
       /\ resp = <<<<Hello>>, <<World>>>>
            => t = <<"h", "e", "l", "l", "o", NL, "w", "o", "r", "l", "d">>

HelloWorldTranscribed ==
  /\ out.phase = "done"
  /\ resp = <<<<Hello, World>>, <<World>>>>
  /\ out.text = <<"h", "e", "l", "l", "o", NL, "w", "o", "r", "l", "d">>

\* C6: without an Origin header the gate allows the request; with one, the
\* Access-Control-Allow-Origin header is present exactly when the origin is one
\* of the two configured strings, and then it echoes that origin together with
\* Vary: Origin.
CorsExactMatch ==
  \A r \in Reqs :
    gate[r].phase = "done" =>
      /\ gate[r].origin = Undefined
           => gate[r].allow /\ (gate[r].next \/ gate[r].method = "OPTIONS")
      /\ gate[r].origin # Undefined
           => (gate[r].acao # Undefined
                 <=> gate[r].origin \in
                       {"http://localhost:5173",
                        "https://speech-to-text-frontend-ashen.vercel.app"})
      /\ gate[r].acao # Undefined
           => gate[r].acao = gate[r].origin /\ gate[r].vary = "Origin"

CorsMatchAndMismatchSeen ==
  \E r, s \in Reqs :
    /\ gate[r].origin = "http://localhost:5173"
    /\ gate[r].acao = "http://localhost:5173"
    /\ gate[r].vary = "Origin"
    /\ gate[s].phase = "done"
    /\ gate[s].origin = "http://localhost:5173/"
    /\ gate[s].acao = Undefined

\* C7: two requests in flight at the same time never hold the same transient
\* file name.
InFlightNamesDistinct ==
  \A r, s \in Stored :
    (r # s /\ req[r].pc # "done" /\ req[s].pc # "done")
      => req[r].path # req[s].path

\* C8: no exception escapes a handler, and every request whose handler has
\* stopped has been sent a response.
NoExceptionEscapes ==
  \A r \in Reqs :
    /\ ~req[r].escaped
    /\ req[r].pc \in {"done", "escaped"} => req[r].nresp >= 1

\* C9: a request makes at most one recognizer call and at most one insert, the
\* insert only after the recognizer call succeeded; a failed recognizer call
\* ends the request with 500 and no insert, a failed insert ends it with 500.
NoRetry ==
  \A r \in Posts :
    /\ req[r].recogCalls <= 1
    /\ req[r].inserts <= 1
    /\ req[r].inserts = 1 => req[r].recog = "ok" /\ req[r].recogCalls = 1
    /\ req[r].recog = "failed"
         => /\ req[r].pc = "done"
            /\ req[r].status = 500
            /\ req[r].inserts = 0
    /\ req[r].insert \in {"error", "threw"}
         => /\ req[r].pc = "done"
            /\ req[r].status = 500
            /\ req[r].nresp = 1
    /\ req[r].status = 200 => req[r].insert = "ok"

FailedCallsSeen ==
  \E r, s \in Posts :
    /\ req[r].recog = "failed"
    /\ req[r].status = 500
    /\ req[s].insert = "error"
    /\ req[s].status = 500

\* C10: a POST /transcribe request never sends a second response, and it has
\* sent exactly one when the middleware and the handler have finished.
ExactlyOneResponse ==
  \A r \in Posts :
    /\ req[r].nresp <= 1
    /\ req[r].pc = "done" <=> req[r].nresp = 1
    /\ req[r].pc \in {"uploaded", "recognizing", "inserting", "done"}

EveryEndingSeen ==
  \E r, s \in Posts :
    /\ req[r].pc = "done" /\ req[r].status = 200 /\ req[r].nresp = 1
    /\ req[s].pc = "done" /\ req[s].status = 400 /\ req[s].nresp = 1

====
